---- MODULE Spec2Model ----
(***************************************************************************)
(* A model of the two access patterns of the yellowdb examples:           *)
(*   examples/cache_layer.py    CacheLayer   (TTL cache-aside layer)      *)
(*   examples/session_store.py  SessionStore (sliding-expiration store)   *)
(* built on an ordered key-value store with atomic batches.               *)
(***************************************************************************)
EXTENDS Integers, Sequences, FiniteSets, TLC

VARIABLES
    db,       \* the store: a function from the keys present to their bytes
    stats,    \* CacheLayer.stats: hits, misses, writes, evictions
    now,      \* the wall clock, what datetime.now() returns
    call,     \* the call (or step of a call) that produced this state
    ret,      \* what that call returned
    warm,     \* the warm_cache call in progress: position, pending batch
    gets,     \* number of CacheLayer.get calls made
    issued,   \* the session ids create_session has generated so far
    procs     \* per caller, the call it is in the middle of: position and locals

vars == <<db, stats, now, call, ret, warm, gets, issued, procs>>

----------------------------------------------------------------------------
(* Bounds of the model *)

MaxTime == 2          \* the clock runs over 0..MaxTime
default_ttl == 2      \* CacheLayer(default_ttl=...)
ttl_seconds == 1      \* SessionStore(ttl_seconds=...)
MaxCount == 2         \* the statistics counters add up to at most MaxCount

Skews == {0, 1}               \* how far the clock advances between two reads in a call
ExplicitTTLs == {0, 1}        \* the ttl arguments callers give
Keys == {"k1", "k2"}          \* logical cache keys
SessionIds == {"s1", "s2"}    \* the tokens secrets.token_urlsafe can return
Users == {"u1"}
Callers == {"A", "B"}         \* the callers that share the store in the interleaved runs

----------------------------------------------------------------------------
(* Python values and their JSON encoding *)

None == [py |-> "none", items |-> <<>>]
PyInt(n) == [py |-> "int", items |-> <<n>>]
PyList(s) == [py |-> "list", items |-> s]
PyTuple(s) == [py |-> "tuple", items |-> s]

\* the values callers cache
Values == {PyInt(1), PyTuple(<<1, 2>>)}

\* json.dumps(value).encode(): a tuple is written as a JSON array, like a list
json_dumps(v) ==
    [json |-> CASE v.py = "none" -> "null"
                [] v.py = "int" -> "number"
                [] v.py \in {"list", "tuple"} -> "array",
     items |-> v.items]

\* json.loads(bytes.decode()): a JSON array is read back as a list
json_loads(b) ==
    [py |-> CASE b.json = "null" -> "none"
              [] b.json = "number" -> "int"
              [] b.json = "array" -> "list",
     items |-> b.items]

\* len(value_bytes): "null", "1", "[1, 2]"
len(b) ==
    CASE b.json = "null" -> 4
      [] b.json = "number" -> Len(b.items)
      [] b.json = "array" -> IF b.items = <<>> THEN 2 ELSE 3 * Len(b.items)

\* json.dumps / json.loads of a dict with string keys (metadata, session record)
json_dumps_obj(d) == [json |-> "object", items |-> d]
json_loads_obj(b) == b.items

\* datetime.isoformat() / datetime.fromisoformat()
isoformat(t) == [iso |-> t]
fromisoformat(s) == s.iso

\* timedelta(seconds=n), in clock units
timedelta(n) == n

----------------------------------------------------------------------------
(* The ordered key-value store: YellowDB and Batch *)

cache_prefix == "cache:"
metadata_prefix == "meta:"
session_prefix == "session:"

\* a key is <<prefix, rest>>; keys are ordered lexicographically
PrefixRank(p) ==
    CASE p = "app:" -> 0
      [] p = cache_prefix -> 1
      [] p = metadata_prefix -> 2
      [] p = session_prefix -> 3
      [] p = "user:" -> 4

RestRank(r) ==
    CASE r = "" -> 0
      [] r \in {"k1", "s1"} -> 1
      [] r \in {"k2", "s2"} -> 2

KeyLess(a, b) ==
    \/ PrefixRank(a[1]) < PrefixRank(b[1])
    \/ a[1] = b[1] /\ RestRank(a[2]) < RestRank(b[2])

startswith(key, prefix) == key[1] = prefix

EmptyDb == [k \in {} |-> None]

db_has(d, k) == k \in DOMAIN d

db_set(d, k, v) == [x \in (DOMAIN d) \cup {k} |-> IF x = k THEN v ELSE d[x]]

db_delete(d, k) == [x \in (DOMAIN d) \ {k} |-> d[x]]

RECURSIVE SortedKeys(_)
SortedKeys(S) ==
    IF S = {} THEN <<>>
    ELSE LET m == CHOOSE x \in S : \A y \in S : ~KeyLess(y, x)
         IN  <<m>> \o SortedKeys(S \ {m})

\* db.scan(start_key): the keys >= start_key in order
db_scan(d, start) == SortedKeys({k \in DOMAIN d : ~KeyLess(k, start)})

\* for key, value in scan: if not key.startswith(prefix): break
RECURSIVE ScanWhilePrefix(_, _)
ScanWhilePrefix(keys, prefix) ==
    IF keys = <<>> \/ ~startswith(Head(keys), prefix) THEN <<>>
    ELSE <<Head(keys)>> \o ScanWhilePrefix(Tail(keys), prefix)

BatchPut(k, v) == [op |-> "put", key |-> k, value |-> v]
BatchDelete(k) == [op |-> "delete", key |-> k, value |-> None]

\* leaving the with-block normally applies the collected operations in one step
RECURSIVE BatchCommit(_, _)
BatchCommit(d, ops) ==
    IF ops = <<>> THEN d
    ELSE LET o == Head(ops)
             d1 == IF o.op = "put" THEN db_set(d, o.key, o.value)
                   ELSE db_delete(d, o.key)
         IN  BatchCommit(d1, Tail(ops))

----------------------------------------------------------------------------
(* CacheLayer *)

CacheKey(key) == <<cache_prefix, key>>
MetaKey(key) == <<metadata_prefix, key>>

\* the ttl argument: omitted (None) or an integer
NoTTL == [given |-> FALSE, v |-> 0]
TTL(n) == [given |-> TRUE, v |-> n]
TTLArgs == {NoTTL} \cup {TTL(n) : n \in ExplicitTTLs}

\* ttl = ttl or self.default_ttl
TTLOrDefault(ttl) == IF ttl.given /\ ttl.v # 0 THEN ttl.v ELSE default_ttl

\* the loader_fn argument: None, a function that returns v, a function that raises
NoLoader == [kind |-> "none", v |-> None]
Returns(v) == [kind |-> "returns", v |-> v]
Raises == [kind |-> "raises", v |-> None]
Loaders == {NoLoader, Raises} \cup {Returns(v) : v \in Values}

Raise == [kind |-> "raise", v |-> None]
RetValue(v) == [kind |-> "value", v |-> v]
RetInt(n) == [kind |-> "int", v |-> [int |-> n]]
RetBool(b) == [kind |-> "bool", v |-> [bool |-> b]]
RetId(session_id) == [kind |-> "id", v |-> [id |-> session_id]]
RetList(l) == [kind |-> "list", v |-> [list |-> l]]
RetNone == RetValue(None)

Metadata(key, created_at, expires_at, ttl, value_bytes) ==
    [key |-> key,
     created_at |-> isoformat(created_at),
     expires_at |-> isoformat(expires_at),
     ttl |-> ttl,
     size_bytes |-> len(value_bytes)]

StoredMeta(d, key) == json_loads_obj(d[MetaKey(key)])
ExpiresAt(d, key) == fromisoformat(StoredMeta(d, key).expires_at)

\* a set that forgets to add the ttl to the expiry time
SetDb_no_ttl(d, key, value, ttl, t1, t2) ==
    LET eff == TTLOrDefault(ttl)
        value_bytes == json_dumps(value)
        meta_bytes == json_dumps_obj(Metadata(key, t1, t2, eff, value_bytes))
    IN  BatchCommit(d, <<BatchPut(CacheKey(key), value_bytes),
                         BatchPut(MetaKey(key), meta_bytes)>>)

\* the store after set(key, value, ttl) whose two clock reads gave t1 and t2
SetDb(d, key, value, ttl, t1, t2) ==
    LET eff == TTLOrDefault(ttl)
        value_bytes == json_dumps(value)
        meta_bytes == json_dumps_obj(Metadata(key, t1, t2 + timedelta(eff), eff, value_bytes))
    IN  BatchCommit(d, <<BatchPut(CacheKey(key), value_bytes),
                         BatchPut(MetaKey(key), meta_bytes)>>)

Bump(s, c, n) == [s EXCEPT ![c] = @ + n]

Idle == warm.pc = "idle"

\* self.stats["hits"] += 1 and self.stats["misses"] += 1
RecordHit(s) == Bump(s, "hits", 1)
RecordMiss_forgotten(s) == s
RecordMiss_as_eviction(s) == Bump(Bump(s, "misses", 1), "evictions", 1)
RecordMiss(s) == Bump(s, "misses", 1)

\* the counters stay within MaxCount in total: a call that would count n more
\* is made only while there is room for n
Room(n) == stats.hits + stats.misses + stats.writes + stats.evictions + n <= MaxCount

\* the record of a call: the operation, its key, the branch it took, how often
\* it invoked the loader, the value and ttl it wrote (None, NoTTL if none), the
\* dict a warm_cache wrote and the dict an update_session merged
Call(op, key, branch, loaded, value, ttl) ==
    [op |-> op, key |-> key, branch |-> branch, loaded |-> loaded,
     value |-> value, ttl |-> ttl, data_dict |-> <<>>,
     after |-> [op |-> "", key |-> ""], data |-> [f \in {} |-> 0]]

\* the record of a get also names the call it came after
GetCalled(key, branch, loaded, value, ttl) ==
    [Call("get", key, branch, loaded, value, ttl)
        EXCEPT !.after = [op |-> call.op, key |-> call.key]]

\* a caller between two calls: the next call it starts reads nothing from here
IdleProc ==
    [pc |-> "idle", op |-> "", key |-> "", loader_fn |-> NoLoader, ttl |-> NoTTL,
     data |-> [f \in {} |-> 0], session_data |-> [f \in {} |-> 0],
     cached_bytes |-> json_dumps(None), expired_keys |-> <<>>, orphan |-> FALSE]

NoCall ==
    [op |-> "init", key |-> "", branch |-> "", loaded |-> 0, value |-> None,
     ttl |-> NoTTL, data_dict |-> <<>>, after |-> [op |-> "", key |-> ""],
     data |-> [f \in {} |-> 0]]

\* a get that still serves an entry at its expiry time
GetBranch_inclusive(d, key, t) ==
    IF db_has(d, CacheKey(key))
    THEN IF db_has(d, MetaKey(key))
         THEN IF t <= ExpiresAt(d, key) THEN "hit" ELSE "expired"
         ELSE "nometa"
    ELSE "absent"

\* the branch get takes in the store d at time t
GetBranch(d, key, t) ==
    IF db_has(d, CacheKey(key))
    THEN IF db_has(d, MetaKey(key))
         THEN IF t < ExpiresAt(d, key) THEN "hit" ELSE "expired"
         ELSE "nometa"
    ELSE "absent"

\* a lookup that renews the expiry time of the entry it serves
GetDb_sliding(d, key, t) ==
    LET branch == GetBranch(d, key, t)
    IN  CASE branch \in {"expired", "nometa"} ->
                db_delete(db_delete(d, CacheKey(key)), MetaKey(key))
          [] branch = "hit" ->
                db_set(d, MetaKey(key),
                       json_dumps_obj([StoredMeta(d, key) EXCEPT
                           !.expires_at = isoformat(t + timedelta(StoredMeta(d, key).ttl))]))
          [] OTHER -> d

\* the store after the lookup of get(key) at time t: an entry that is expired
\* or has no metadata is removed by two deletes, nothing else is written
GetDb(d, key, t) ==
    IF GetBranch(d, key, t) \in {"expired", "nometa"}
    THEN db_delete(db_delete(d, CacheKey(key)), MetaKey(key))
    ELSE d

\* get(key, loader_fn, ttl)
get(key, loader_fn, ttl) ==
    LET branch == GetBranch(db, key, now)
        d1 == GetDb(db, key, now)
    IN  /\ Idle
        /\ gets' = gets + 1
        /\ UNCHANGED <<warm, issued, procs>>
        /\ IF branch = "hit"
           THEN /\ Room(1)
                /\ stats' = RecordHit(stats)
                /\ ret' = RetValue(json_loads(db[CacheKey(key)]))
                /\ call' = GetCalled(key, branch, 0, None, NoTTL)
                /\ db' = d1
                /\ UNCHANGED now
           ELSE /\ Room(1)
                /\ CASE loader_fn.kind = "none" ->
                          /\ db' = d1
                          /\ stats' = RecordMiss(stats)
                          /\ ret' = RetNone
                          /\ call' = GetCalled(key, branch, 0, None, NoTTL)
                          /\ UNCHANGED now
                     [] loader_fn.kind = "raises" ->
                          /\ db' = d1
                          /\ stats' = RecordMiss(stats)
                          /\ ret' = Raise
                          /\ call' = GetCalled(key, branch, 1, None, NoTTL)
                          /\ UNCHANGED now
                     [] loader_fn.kind = "returns" ->
                          \E s1 \in Skews, s2 \in Skews :
                              /\ now + s1 + s2 <= MaxTime
                              /\ Room(2)
                              /\ db' = SetDb(d1, key, loader_fn.v, ttl, now + s1, now + s1 + s2)
                              /\ stats' = Bump(RecordMiss(stats), "writes", 1)
                              /\ ret' = RetValue(loader_fn.v)
                              /\ call' = GetCalled(key, branch, 1, loader_fn.v, ttl)
                              /\ now' = now + s1 + s2

\* set(key, value, ttl)
set(key, value, ttl) ==
    \E s \in Skews :
        /\ Idle
        /\ now + s <= MaxTime
        /\ Room(1)
        /\ db' = SetDb(db, key, value, ttl, now, now + s)
        /\ stats' = Bump(stats, "writes", 1)
        /\ ret' = RetNone
        /\ call' = Call("set", key, "", 0, value, ttl)
        /\ now' = now + s
        /\ UNCHANGED <<warm, gets, issued, procs>>

\* a delete that counts an eviction only when the entry existed
delete_if_present(key) ==
    /\ Idle
    /\ Room(1)
    /\ db' = BatchCommit(db, <<BatchDelete(CacheKey(key)), BatchDelete(MetaKey(key))>>)
    /\ stats' = IF db_has(db, CacheKey(key)) THEN Bump(stats, "evictions", 1) ELSE stats
    /\ ret' = RetNone
    /\ call' = Call("delete", key, "", 0, None, NoTTL)
    /\ UNCHANGED <<now, warm, gets, issued, procs>>

\* delete(key)
delete(key) ==
    /\ Idle
    /\ Room(1)
    /\ db' = BatchCommit(db, <<BatchDelete(CacheKey(key)), BatchDelete(MetaKey(key))>>)
    /\ stats' = Bump(stats, "evictions", 1)
    /\ ret' = RetNone
    /\ call' = Call("delete", key, "", 0, None, NoTTL)
    /\ UNCHANGED <<now, warm, gets, issued, procs>>

\* a scan started at "cache:", which leaves at the first cache: key
MetaScan_from_cache(d) == ScanWhilePrefix(db_scan(d, <<cache_prefix, "">>), metadata_prefix)

\* the metadata keys clear_expired and get_stats visit: the scan from "meta:",
\* left at the first key without the prefix
MetaScan(d) == ScanWhilePrefix(db_scan(d, <<metadata_prefix, "">>), metadata_prefix)

\* expired_keys: metadata["key"] of every visited record with current_time > expires_at
RECURSIVE ExpiredKeys(_, _, _)
ExpiredKeys(d, keys, current_time) ==
    IF keys = <<>> THEN <<>>
    ELSE LET metadata == json_loads_obj(d[Head(keys)])
             rest == ExpiredKeys(d, Tail(keys), current_time)
         IN  IF current_time > fromisoformat(metadata.expires_at)
             THEN <<metadata.key>> \o rest
             ELSE rest

\* a sweep that forgets the metadata records
RECURSIVE DeletePairs_cache_only(_)
DeletePairs_cache_only(keys) ==
    IF keys = <<>> THEN <<>>
    ELSE <<BatchDelete(CacheKey(Head(keys)))>> \o DeletePairs_cache_only(Tail(keys))

RECURSIVE DeletePairs(_)
DeletePairs(keys) ==
    IF keys = <<>> THEN <<>>
    ELSE <<BatchDelete(CacheKey(Head(keys))), BatchDelete(MetaKey(Head(keys)))>>
         \o DeletePairs(Tail(keys))

\* clear_expired()
clear_expired ==
    LET expired_keys == ExpiredKeys(db, MetaScan(db), now)
    IN  /\ Idle
        /\ Room(Len(expired_keys))
        /\ IF expired_keys # <<>>
           THEN /\ db' = BatchCommit(db, DeletePairs(expired_keys))
                /\ stats' = Bump(stats, "evictions", Len(expired_keys))
           ELSE UNCHANGED <<db, stats>>
        /\ ret' = RetInt(Len(expired_keys))
        /\ call' = Call("clear_expired", "", "", 0, None, NoTTL)
        /\ UNCHANGED <<now, warm, gets, issued, procs>>

\* the dicts passed to warm_cache: sequences of <<key, value>> with distinct keys
DataDicts ==
    {<<>>}
    \cup {<<<<k, v>>>> : k \in Keys, v \in Values}
    \cup {dd \in {<<<<k1, v1>>, <<k2, v2>>>> :
                      k1 \in Keys, k2 \in Keys, v1 \in Values, v2 \in Values} :
              dd[1][1] # dd[2][1]}

NotWarming == [pc |-> "idle"]

\* warm_cache(data_dict, ttl): up to the with-block
warm_cache_begin(data_dict, ttl) ==
    /\ Idle
    /\ Room(Len(data_dict))
    /\ warm' = [pc |-> "loop", data_dict |-> data_dict, items |-> data_dict,
                ttl |-> TTLOrDefault(ttl), current_time |-> now, batch |-> <<>>]
    /\ call' = Call("warm_cache", "", "begin", 0, None, ttl)
    /\ ret' = RetNone
    /\ UNCHANGED <<db, stats, now, gets, issued, procs>>

\* a loop that writes every pair in a batch of its own
warm_cache_put_eager ==
    /\ warm.pc = "loop"
    /\ warm.items # <<>>
    /\ LET key == Head(warm.items)[1]
           value == Head(warm.items)[2]
           value_bytes == json_dumps(value)
           metadata == Metadata(key, warm.current_time,
                                warm.current_time + timedelta(warm.ttl), warm.ttl, value_bytes)
           puts == <<BatchPut(CacheKey(key), value_bytes),
                     BatchPut(MetaKey(key), json_dumps_obj(metadata))>>
       IN  /\ warm' = [warm EXCEPT !.items = Tail(@), !.batch = @ \o puts]
           /\ db' = BatchCommit(db, puts)
    /\ call' = Call("warm_cache", "", "put", 0, None, NoTTL)
    /\ UNCHANGED <<stats, now, ret, gets, issued, procs>>

\* one iteration of the loop: two puts join the batch
warm_cache_put ==
    /\ warm.pc = "loop"
    /\ warm.items # <<>>
    /\ LET key == Head(warm.items)[1]
           value == Head(warm.items)[2]
           value_bytes == json_dumps(value)
           metadata == Metadata(key, warm.current_time,
                                warm.current_time + timedelta(warm.ttl), warm.ttl, value_bytes)
       IN  warm' = [warm EXCEPT !.items = Tail(@),
                                !.batch = @ \o <<BatchPut(CacheKey(key), value_bytes),
                                                 BatchPut(MetaKey(key), json_dumps_obj(metadata))>>]
    /\ call' = Call("warm_cache", "", "put", 0, None, NoTTL)
    /\ UNCHANGED <<db, stats, now, ret, gets, issued, procs>>

\* an iteration raises: the with-block is left by the exception, the batch is dropped
warm_cache_fault ==
    /\ warm.pc = "loop"
    /\ warm.items # <<>>
    /\ warm' = NotWarming
    /\ call' = Call("warm_cache", "", "fault", 0, None, NoTTL)
    /\ ret' = Raise
    /\ UNCHANGED <<db, stats, now, gets, issued, procs>>

\* the loop is over: the with-block is left, the batch is applied, the call returns
warm_cache_commit ==
    /\ warm.pc = "loop"
    /\ warm.items = <<>>
    /\ db' = BatchCommit(db, warm.batch)
    /\ stats' = Bump(stats, "writes", Len(warm.data_dict))
    /\ ret' = RetInt(Len(warm.data_dict))
    /\ call' = [Call("warm_cache", "", "commit", 0, None, NoTTL)
                   EXCEPT !.data_dict = warm.data_dict]
    /\ warm' = NotWarming
    /\ UNCHANGED <<now, gets, issued, procs>>

\* a sum that keeps only the size of the last record visited
RECURSIVE SumSizes_last_only(_, _)
SumSizes_last_only(d, keys) ==
    IF keys = <<>> THEN 0
    ELSE json_loads_obj(d[keys[Len(keys)]]).size_bytes

RECURSIVE SumSizes(_, _)
SumSizes(d, keys) ==
    IF keys = <<>> THEN 0
    ELSE json_loads_obj(d[Head(keys)]).size_bytes + SumSizes(d, Tail(keys))

\* get_stats(), without the store's own metrics
get_stats ==
    LET total_requests == stats.hits + stats.misses
        scanned == MetaScan(db)
    IN  /\ Idle
        /\ ret' = [kind |-> "stats",
                   v |-> [cache_hits |-> stats.hits,
                          cache_misses |-> stats.misses,
                          hit_rate_percent |->
                              IF total_requests > 0
                              THEN (stats.hits * 100) \div total_requests ELSE 0,
                          total_writes |-> stats.writes,
                          total_evictions |-> stats.evictions,
                          current_entries |-> Len(scanned),
                          total_cached_size |-> SumSizes(db, scanned)]]
        /\ call' = Call("get_stats", "", "", 0, None, NoTTL)
        /\ UNCHANGED <<db, stats, now, warm, gets, issued, procs>>

----------------------------------------------------------------------------
(* SessionStore *)

SessionKey(session_id) == <<session_prefix, session_id>>

\* the empty dict
EmptyDict == [f \in {} |-> 0]

\* the dicts callers pass to update_session: empty, one that overwrites the
\* field a session is created with, one that adds a field
ArgDicts == {EmptyDict, [f \in {"a"} |-> 2], [f \in {"b"} |-> 1]}

\* the data argument of create_session: None or a dict
NoData == [given |-> FALSE, d |-> EmptyDict]
Data(d) == [given |-> TRUE, d |-> d]
DataArgs == {NoData, Data(EmptyDict), Data([f \in {"a"} |-> 1])}

\* data or {}
DataOrEmpty(data) == IF data.given /\ data.d # EmptyDict THEN data.d ELSE EmptyDict

\* an update that replaces the dict
dict_update_replace(d, other) == other

\* dict.update(other)
dict_update(d, other) ==
    [f \in (DOMAIN d) \cup (DOMAIN other) |-> IF f \in DOMAIN other THEN other[f] ELSE d[f]]

StoredSession(d, session_id) == json_loads_obj(d[SessionKey(session_id)])
LastAccessed(d, session_id) == fromisoformat(StoredSession(d, session_id).last_accessed)

\* an expiry test that counts the boundary as expired
SessionExpired_at_boundary(last_accessed, t) == t - last_accessed >= timedelta(ttl_seconds)

\* last_accessed is more than ttl_seconds before t
SessionExpired(last_accessed, t) == t - last_accessed > timedelta(ttl_seconds)

\* a create_session whose identifiers can repeat
create_session_repeating(user_id, data) ==
    \E session_id \in SessionIds, s \in Skews :
        /\ now + s <= MaxTime
        /\ LET session_data == [session_id |-> session_id,
                                user_id |-> user_id,
                                created_at |-> isoformat(now),
                                last_accessed |-> isoformat(now + s),
                                data |-> DataOrEmpty(data)]
           IN  db' = db_set(db, SessionKey(session_id), json_dumps_obj(session_data))
        /\ issued' = issued \cup {session_id}
        /\ now' = now + s
        /\ ret' = RetId(session_id)
        /\ call' = Call("create_session", session_id, "", 0, None, NoTTL)
        /\ UNCHANGED <<stats, warm, gets, procs>>

\* create_session(user_id, data)
create_session(user_id, data) ==
    \E session_id \in SessionIds \ issued, s \in Skews :
        /\ now + s <= MaxTime
        /\ LET session_data == [session_id |-> session_id,
                                user_id |-> user_id,
                                created_at |-> isoformat(now),
                                last_accessed |-> isoformat(now + s),
                                data |-> DataOrEmpty(data)]
           IN  db' = db_set(db, SessionKey(session_id), json_dumps_obj(session_data))
        /\ issued' = issued \cup {session_id}
        /\ now' = now + s
        /\ ret' = RetId(session_id)
        /\ call' = Call("create_session", session_id, "", 0, None, NoTTL)
        /\ UNCHANGED <<stats, warm, gets, procs>>

\* the branch get_session takes in the store d at time t
GetSessionBranch(d, session_id, t) ==
    IF ~db_has(d, SessionKey(session_id)) THEN "absent"
    ELSE IF SessionExpired(LastAccessed(d, session_id), t) THEN "expired"
    ELSE "live"

\* a refresh that reuses the clock reading of the expiry test
GetSessionData_stale(d, session_id, t1, t2) ==
    IF GetSessionBranch(d, session_id, t1) = "live"
    THEN [kind |-> "session",
          v |-> [StoredSession(d, session_id) EXCEPT !.last_accessed = isoformat(t1)]]
    ELSE RetNone

\* what get_session(session_id) returns when its clock reads give t1 and t2
GetSessionData(d, session_id, t1, t2) ==
    IF GetSessionBranch(d, session_id, t1) = "live"
    THEN [kind |-> "session",
          v |-> [StoredSession(d, session_id) EXCEPT !.last_accessed = isoformat(t2)]]
    ELSE RetNone

\* the store after that get_session(session_id)
GetSessionDb(d, session_id, t1, t2) ==
    LET branch == GetSessionBranch(d, session_id, t1)
    IN  CASE branch = "absent" -> d
          [] branch = "expired" -> db_delete(d, SessionKey(session_id))
          [] branch = "live" ->
                db_set(d, SessionKey(session_id),
                       json_dumps_obj(GetSessionData(d, session_id, t1, t2).v))

\* get_session(session_id)
get_session(session_id) ==
    \E s \in Skews :
        LET branch == GetSessionBranch(db, session_id, now)
            t2 == IF branch = "live" THEN now + s ELSE now
        IN  /\ branch # "live" => s = 0
            /\ t2 <= MaxTime
            /\ db' = GetSessionDb(db, session_id, now, t2)
            /\ ret' = GetSessionData(db, session_id, now, t2)
            /\ now' = t2
            /\ call' = Call("get_session", session_id, branch, 0, None, NoTTL)
            /\ UNCHANGED <<stats, warm, gets, issued, procs>>

\* update_session(session_id, data)
update_session(session_id, data) ==
    \E s1 \in Skews, s2 \in Skews :
        LET branch == GetSessionBranch(db, session_id, now)
            t2 == IF branch = "live" THEN now + s1 ELSE now
            t3 == IF branch = "live" THEN t2 + s2 ELSE now
            d1 == GetSessionDb(db, session_id, now, t2)
            got == GetSessionData(db, session_id, now, t2)
        IN  /\ branch # "live" => (s1 = 0 /\ s2 = 0)
            /\ t3 <= MaxTime
            /\ IF got = RetNone
               THEN /\ db' = d1
                    /\ ret' = RetBool(FALSE)
               ELSE /\ LET session_data ==
                               [got.v EXCEPT !.data = dict_update(@, data),
                                             !.last_accessed = isoformat(t3)]
                       IN  db' = db_set(d1, SessionKey(session_id), json_dumps_obj(session_data))
                    /\ ret' = RetBool(TRUE)
            /\ now' = t3
            /\ call' = [Call("update_session", session_id, branch, 0, None, NoTTL)
                           EXCEPT !.data = data]
            /\ UNCHANGED <<stats, warm, gets, issued, procs>>

\* delete_session(session_id)
delete_session(session_id) ==
    /\ db' = db_delete(db, SessionKey(session_id))
    /\ ret' = RetNone
    /\ call' = Call("delete_session", session_id, "", 0, None, NoTTL)
    /\ UNCHANGED <<stats, now, warm, gets, issued, procs>>

\* the session keys a scan from "session:" visits before its break
SessionScan(d) == ScanWhilePrefix(db_scan(d, <<session_prefix, "">>), session_prefix)

\* expired_sessions: session_id of every visited record that has expired at current_time
RECURSIVE ExpiredSessions(_, _, _)
ExpiredSessions(d, keys, current_time) ==
    IF keys = <<>> THEN <<>>
    ELSE LET session_data == json_loads_obj(d[Head(keys)])
             rest == ExpiredSessions(d, Tail(keys), current_time)
         IN  IF SessionExpired(fromisoformat(session_data.last_accessed), current_time)
             THEN <<session_data.session_id>> \o rest
             ELSE rest

\* a sweep that deletes only the first session it collected
DeleteSessions_first_only(ids) ==
    IF ids = <<>> THEN <<>> ELSE <<BatchDelete(SessionKey(Head(ids)))>>

RECURSIVE DeleteSessions(_)
DeleteSessions(ids) ==
    IF ids = <<>> THEN <<>>
    ELSE <<BatchDelete(SessionKey(Head(ids)))>> \o DeleteSessions(Tail(ids))

\* cleanup_expired_sessions()
cleanup_expired_sessions ==
    LET expired_sessions == ExpiredSessions(db, SessionScan(db), now)
    IN  /\ IF expired_sessions # <<>>
           THEN db' = BatchCommit(db, DeleteSessions(expired_sessions))
           ELSE UNCHANGED db
        /\ ret' = RetInt(Len(expired_sessions))
        /\ call' = Call("cleanup_expired_sessions", "", "", 0, None, NoTTL)
        /\ UNCHANGED <<stats, now, warm, gets, issued, procs>>

RECURSIVE UserSessions(_, _, _)
UserSessions(d, keys, user_id) ==
    IF keys = <<>> THEN <<>>
    ELSE LET session_data == json_loads_obj(d[Head(keys)])
             rest == UserSessions(d, Tail(keys), user_id)
         IN  IF session_data.user_id = user_id
             THEN <<session_data.session_id>> \o rest
             ELSE rest

\* get_user_sessions(user_id)
get_user_sessions(user_id) ==
    /\ ret' = RetList(UserSessions(db, SessionScan(db), user_id))
    /\ call' = Call("get_user_sessions", user_id, "", 0, None, NoTTL)
    /\ UNCHANGED <<db, stats, now, warm, gets, issued, procs>>

Tick ==
    /\ now < MaxTime
    /\ now' = now + 1
    /\ UNCHANGED <<db, stats, call, ret, warm, gets, issued, procs>>

Init ==
    /\ db = EmptyDb
    /\ stats = [hits |-> 0, misses |-> 0, writes |-> 0, evictions |-> 0]
    /\ now = 0
    /\ call = NoCall
    /\ ret = RetNone
    /\ warm = NotWarming
    /\ gets = 0
    /\ issued = {}
    /\ procs = [c \in Callers |-> IdleProc]

NextCache ==
    \/ \E key \in Keys, loader_fn \in Loaders, ttl \in TTLArgs : get(key, loader_fn, ttl)
    \/ \E key \in Keys, value \in Values, ttl \in TTLArgs : set(key, value, ttl)
    \/ \E key \in Keys : delete(key)
    \/ clear_expired
    \/ \E data_dict \in DataDicts, ttl \in TTLArgs : warm_cache_begin(data_dict, ttl)
    \/ warm_cache_put
    \/ warm_cache_fault
    \/ warm_cache_commit
    \/ get_stats
    \/ Tick

SpecCache == Init /\ [][NextCache]_vars

NextSession ==
    \/ \E user_id \in Users, data \in DataArgs : create_session(user_id, data)
    \/ \E session_id \in SessionIds : get_session(session_id)
    \/ \E session_id \in SessionIds, data \in ArgDicts : update_session(session_id, data)
    \/ \E session_id \in SessionIds : delete_session(session_id)
    \/ cleanup_expired_sessions
    \/ \E user_id \in Users : get_user_sessions(user_id)
    \/ Tick

SpecSession == Init /\ [][NextSession]_vars

----------------------------------------------------------------------------
(* Two callers on one SessionStore: a step for every call of the store *)

AtRest(c) == procs[c].pc = "idle"

\* get_session(session_id), or update_session(session_id, data) inside its
\* get_session, up to the read of the record: an absent session ends the call
session_read(c, op, session_id, data) ==
    /\ AtRest(c)
    /\ IF db_has(db, SessionKey(session_id))
       THEN /\ procs' = [procs EXCEPT ![c] =
                           [IdleProc EXCEPT !.pc = "touch", !.op = op, !.key = session_id,
                                            !.data = data,
                                            !.session_data = StoredSession(db, session_id)]]
            /\ UNCHANGED <<call, ret>>
       ELSE /\ ret' = IF op = "update_session" THEN RetBool(FALSE) ELSE RetNone
            /\ call' = Call(op, session_id, "absent", 0, None, NoTTL)
            /\ UNCHANGED procs
    /\ UNCHANGED <<db, stats, now, warm, gets, issued>>

\* get_session from the expiry test on: the delete of an expired session, or
\* the refresh of the record read before and its write back
session_touch(c) ==
    LET p == procs[c]
        last_accessed == fromisoformat(p.session_data.last_accessed)
    IN  /\ p.pc = "touch"
        /\ IF SessionExpired(last_accessed, now)
           THEN /\ db' = db_delete(db, SessionKey(p.key))
                /\ ret' = IF p.op = "update_session" THEN RetBool(FALSE) ELSE RetNone
                /\ call' = Call(p.op, p.key, "expired", 0, None, NoTTL)
                /\ procs' = [procs EXCEPT ![c] = IdleProc]
                /\ UNCHANGED now
           ELSE \E s \in Skews :
                    LET session_data ==
                            [p.session_data EXCEPT !.last_accessed = isoformat(now + s)]
                    IN  /\ now + s <= MaxTime
                        /\ db' = db_set(db, SessionKey(p.key), json_dumps_obj(session_data))
                        /\ now' = now + s
                        /\ IF p.op = "get_session"
                           THEN /\ ret' = [kind |-> "session", v |-> session_data]
                                /\ call' = Call(p.op, p.key, "live", 0, None, NoTTL)
                                /\ procs' = [procs EXCEPT ![c] = IdleProc]
                           ELSE /\ procs' = [procs EXCEPT ![c].pc = "merge",
                                                          ![c].session_data = session_data]
                                /\ UNCHANGED <<call, ret>>
        /\ UNCHANGED <<stats, warm, gets, issued>>

\* update_session after its get_session returned a record: merge, stamp, write
session_merge(c) ==
    LET p == procs[c]
        session_data == [p.session_data EXCEPT !.data = dict_update(@, p.data),
                                               !.last_accessed = isoformat(now)]
    IN  /\ p.pc = "merge"
        /\ db' = db_set(db, SessionKey(p.key), json_dumps_obj(session_data))
        /\ ret' = RetBool(TRUE)
        /\ call' = [Call(p.op, p.key, "live", 0, None, NoTTL) EXCEPT !.data = p.data]
        /\ procs' = [procs EXCEPT ![c] = IdleProc]
        /\ UNCHANGED <<stats, now, warm, gets, issued>>

NextSessionConc ==
    \/ \E user_id \in Users : create_session(user_id, NoData)
    \/ \E c \in Callers, session_id \in SessionIds :
          session_read(c, "get_session", session_id, EmptyDict)
    \/ \E c \in Callers, session_id \in SessionIds, data \in {[f \in {"a"} |-> 2]} :
          session_read(c, "update_session", session_id, data)
    \/ \E c \in Callers : session_touch(c)
    \/ \E c \in Callers : session_merge(c)
    \/ \E session_id \in SessionIds : delete_session(session_id)
    \/ Tick

SpecSessionConc == Init /\ [][NextSessionConc]_vars

----------------------------------------------------------------------------
(* Two callers on one CacheLayer: a step for every call of the store *)

\* a call in progress can still count when the other caller has used the room
ConcRoom(n) == stats.hits + stats.misses + stats.writes + stats.evictions + n <= MaxCount + 1

\* get(key, loader_fn, ttl) up to cached_bytes = self.db.get(cache_key); orphan
\* notes whether meta:key was there without cache:key at that moment
get_read_cache(c, key, loader_fn, ttl) ==
    /\ AtRest(c)
    /\ Room(1)
    /\ gets' = gets + 1
    /\ procs' = [procs EXCEPT ![c] =
                    [IdleProc EXCEPT
                        !.pc = IF db_has(db, CacheKey(key)) THEN "read_meta" ELSE "miss",
                        !.op = "get", !.key = key, !.loader_fn = loader_fn, !.ttl = ttl,
                        !.cached_bytes = IF db_has(db, CacheKey(key))
                                         THEN db[CacheKey(key)] ELSE json_dumps(None),
                        !.orphan = ~db_has(db, CacheKey(key)) /\ db_has(db, MetaKey(key))]]
    /\ UNCHANGED <<db, stats, now, call, ret, warm, issued>>

\* meta_bytes = self.db.get(meta_key) and the expiry test: a hit returns
get_read_meta(c) ==
    LET p == procs[c]
    IN  /\ p.pc = "read_meta"
        /\ IF db_has(db, MetaKey(p.key)) /\ now < ExpiresAt(db, p.key)
           THEN /\ ConcRoom(1)
                /\ stats' = RecordHit(stats)
                /\ ret' = RetValue(json_loads(p.cached_bytes))
                /\ call' = Call("get", p.key, "hit", 0, None, NoTTL)
                /\ procs' = [procs EXCEPT ![c] = IdleProc]
           ELSE /\ procs' = [procs EXCEPT ![c].pc = "delete_cache"]
                /\ UNCHANGED <<stats, ret, call>>
        /\ UNCHANGED <<db, now, warm, gets, issued>>

\* self.db.delete(cache_key)
get_delete_cache(c) ==
    /\ procs[c].pc = "delete_cache"
    /\ db' = db_delete(db, CacheKey(procs[c].key))
    /\ procs' = [procs EXCEPT ![c].pc = "delete_meta"]
    /\ UNCHANGED <<stats, now, call, ret, warm, gets, issued>>

\* self.db.delete(meta_key)
get_delete_meta(c) ==
    /\ procs[c].pc = "delete_meta"
    /\ db' = db_delete(db, MetaKey(procs[c].key))
    /\ procs' = [procs EXCEPT ![c].pc = "miss"]
    /\ UNCHANGED <<stats, now, call, ret, warm, gets, issued>>

\* the miss is counted; the loader, if any, is invoked and its value set
get_miss(c) ==
    LET p == procs[c]
    IN  /\ p.pc = "miss"
        /\ procs' = [procs EXCEPT ![c] = IdleProc]
        /\ UNCHANGED <<warm, gets, issued>>
        /\ CASE p.loader_fn.kind = "none" ->
                  /\ ConcRoom(1)
                  /\ stats' = RecordMiss(stats)
                  /\ ret' = RetNone
                  /\ call' = Call("get", p.key, "miss", 0, None, NoTTL)
                  /\ UNCHANGED <<db, now>>
             [] p.loader_fn.kind = "raises" ->
                  /\ ConcRoom(1)
                  /\ stats' = RecordMiss(stats)
                  /\ ret' = Raise
                  /\ call' = Call("get", p.key, "miss", 1, None, NoTTL)
                  /\ UNCHANGED <<db, now>>
             [] p.loader_fn.kind = "returns" ->
                  \E s \in Skews :
                      /\ now + s <= MaxTime
                      /\ ConcRoom(2)
                      /\ db' = SetDb(db, p.key, p.loader_fn.v, p.ttl, now, now + s)
                      /\ stats' = Bump(RecordMiss(stats), "writes", 1)
                      /\ ret' = RetValue(p.loader_fn.v)
                      /\ call' = Call("get", p.key, "miss", 1, p.loader_fn.v, p.ttl)
                      /\ now' = now + s

\* clear_expired() up to the end of its scan: nothing expired ends the call
clear_expired_scan(c) ==
    LET expired_keys == ExpiredKeys(db, MetaScan(db), now)
    IN  /\ AtRest(c)
        /\ IF expired_keys = <<>>
           THEN /\ ret' = RetInt(0)
                /\ call' = Call("clear_expired", "", "", 0, None, NoTTL)
                /\ UNCHANGED procs
           ELSE /\ procs' = [procs EXCEPT ![c] =
                               [IdleProc EXCEPT !.pc = "clear_batch", !.op = "clear_expired",
                                                !.expired_keys = expired_keys]]
                /\ UNCHANGED <<ret, call>>
        /\ UNCHANGED <<db, stats, now, warm, gets, issued>>

\* the batch of clear_expired, the count and the return
clear_expired_batch(c) ==
    LET expired_keys == procs[c].expired_keys
    IN  /\ procs[c].pc = "clear_batch"
        /\ ConcRoom(Len(expired_keys))
        /\ db' = BatchCommit(db, DeletePairs(expired_keys))
        /\ stats' = Bump(stats, "evictions", Len(expired_keys))
        /\ ret' = RetInt(Len(expired_keys))
        /\ call' = Call("clear_expired", "", "", 0, None, NoTTL)
        /\ procs' = [procs EXCEPT ![c] = IdleProc]
        /\ UNCHANGED <<now, warm, gets, issued>>

\* the puts of a warm_cache of items at current_time
RECURSIVE WarmPuts(_, _, _)
WarmPuts(items, current_time, ttl) ==
    IF items = <<>> THEN <<>>
    ELSE LET key == Head(items)[1]
             value_bytes == json_dumps(Head(items)[2])
             metadata == Metadata(key, current_time, current_time + timedelta(ttl),
                                  ttl, value_bytes)
         IN  <<BatchPut(CacheKey(key), value_bytes),
               BatchPut(MetaKey(key), json_dumps_obj(metadata))>>
             \o WarmPuts(Tail(items), current_time, ttl)

\* warm_cache(data_dict, ttl): its only call of the store is the batch
warm_cache(data_dict, ttl) ==
    /\ Room(Len(data_dict))
    /\ db' = BatchCommit(db, WarmPuts(data_dict, now, TTLOrDefault(ttl)))
    /\ stats' = Bump(stats, "writes", Len(data_dict))
    /\ ret' = RetInt(Len(data_dict))
    /\ call' = [Call("warm_cache", "", "commit", 0, None, ttl) EXCEPT !.data_dict = data_dict]
    /\ UNCHANGED <<now, warm, gets, issued, procs>>

NextCacheConc ==
    \/ \E c \in Callers, loader_fn \in {NoLoader, Raises, Returns(PyInt(1))} :
          get_read_cache(c, "k1", loader_fn, TTL(1))
    \/ \E c \in Callers : get_read_meta(c)
    \/ \E c \in Callers : get_delete_cache(c)
    \/ \E c \in Callers : get_delete_meta(c)
    \/ \E c \in Callers : get_miss(c)
    \/ set("k1", PyInt(1), TTL(1))
    \/ delete("k1")
    \/ \E c \in Callers : clear_expired_scan(c)
    \/ \E c \in Callers : clear_expired_batch(c)
    \/ warm_cache(<<<<"k1", PyInt(1)>>>>, TTL(1))
    \/ Tick

SpecCacheConc == Init /\ [][NextCacheConc]_vars

----------------------------------------------------------------------------
(* CacheLayer and SessionStore on one store that also holds other keys *)

\* keys of another application in the same store, sorting before "cache:"
\* and after "session:"
ForeignKeys == {<<"app:", "k1">>, <<"user:", "k1">>}

\* YellowDB.set(key, value) by the other application
foreign_set(key) ==
    /\ ~db_has(db, key)
    /\ db' = db_set(db, key, json_dumps(PyInt(1)))
    /\ ret' = RetNone
    /\ call' = Call("foreign_set", key[2], key[1], 0, None, NoTTL)
    /\ UNCHANGED <<stats, now, warm, gets, issued, procs>>

\* sum(1 for key, _ in scan(start_key="session:") if key.startswith("session:")):
\* a filter over the whole scan, without break
RECURSIVE CountWithPrefix(_, _)
CountWithPrefix(keys, prefix) ==
    IF keys = <<>> THEN 0
    ELSE (IF startswith(Head(keys), prefix) THEN 1 ELSE 0)
         + CountWithPrefix(Tail(keys), prefix)

\* SessionStore.get_stats(), without the store's own metrics
SessionStore_get_stats ==
    LET total_sessions ==
            CountWithPrefix(db_scan(db, <<session_prefix, "">>), session_prefix)
    IN  /\ ret' = [kind |-> "stats", v |-> [total_sessions |-> total_sessions]]
        /\ call' = Call("SessionStore.get_stats", "", "", 0, None, NoTTL)
        /\ UNCHANGED <<db, stats, now, warm, gets, issued, procs>>

\* the clock stands still within a set and a create_session here: the
\* interleavings of their clock reads are explored under SpecCache and SpecSession
NextShared ==
    \/ \E key \in ForeignKeys : foreign_set(key)
    \/ \E key \in Keys : set(key, PyInt(1), TTL(1)) /\ UNCHANGED now
    \/ \E user_id \in Users : create_session(user_id, NoData) /\ UNCHANGED now
    \/ clear_expired
    \/ get_stats
    \/ cleanup_expired_sessions
    \/ \E user_id \in Users : get_user_sessions(user_id)
    \/ SessionStore_get_stats
    \/ Tick

SpecShared == Init /\ [][NextShared]_vars

----------------------------------------------------------------------------
(* Properties of CacheLayer, checked under SpecCache *)

Present(d, key) == db_has(d, CacheKey(key)) /\ db_has(d, MetaKey(key))
PairAbsent(d, key) == ~db_has(d, CacheKey(key)) /\ ~db_has(d, MetaKey(key))
CreatedAt(d, key) == fromisoformat(StoredMeta(d, key).created_at)
Live(d, key, t) == Present(d, key) /\ t < ExpiresAt(d, key)

\* the ttl an entry has by the specification: the one given, default_ttl when omitted
ClaimedTTL(ttl) == IF ttl.given THEN ttl.v ELSE default_ttl

\* a value JSON writes and reads back as itself
JsonNative(v) == v.py \in {"none", "int", "list"}

\* the step is a call of op on key: it leaves that call's record, and it is not
\* a tick of the clock, which changes nothing but now
Called(op, key) ==
    /\ call'.op = op /\ call'.key = key
    /\ ~UNCHANGED <<db, stats, call, ret, warm, gets, issued>>

\* the step is a get(key)
GetCall(key) == Called("get", key) /\ gets' = gets + 1

\* C1: for every logical key K the record cache:K exists if and only if the
\* record meta:K exists
C1_PairedRecords ==
    \A key \in Keys : db_has(db, CacheKey(key)) <=> db_has(db, MetaKey(key))

\* a sweep has removed an entry, both records of it
C1_Witness ==
    /\ call.op = "clear_expired"
    /\ ret = RetInt(1)
    /\ stats.writes = 1
    /\ \A key \in Keys : PairAbsent(db, key)

\* C2 as stated: a get(key) that follows set(key, value, ttl) while
\* now < created_at + ttl returns exactly value
C2_RoundTrip_Original ==
    [][\A key \in Keys :
          (/\ call.op = "set" /\ call.key = key
           /\ GetCall(key)
           /\ now < CreatedAt(db, key) + ClaimedTTL(call.ttl))
          => ret' = RetValue(call.value)]_vars

\* C2 as amended: a get(key) that follows set(key, value, ttl) while
\* now < created_at + ttl returns the value as JSON reads it back, which is
\* exactly value for every value JSON represents as itself
C2_RoundTrip ==
    [][\A key \in Keys :
          (/\ call.op = "set" /\ call.key = key
           /\ GetCall(key)
           /\ now < CreatedAt(db, key) + ClaimedTTL(call.ttl))
          => /\ ret' = RetValue(json_loads(json_dumps(call.value)))
             /\ JsonNative(call.value) => ret' = RetValue(call.value)]_vars

\* a get right after the set of its key has returned the value set
C2_Witness ==
    /\ call.op = "get" /\ call.branch = "hit"
    /\ call.after = [op |-> "set", key |-> call.key]
    /\ ret = RetValue(PyInt(1))

\* C3: a get(key) without loader at a time now >= expires_at of a present entry
\* returns absent and leaves neither cache:key nor meta:key
C3_LazyExpiry ==
    [][\A key \in Keys :
          (/\ Present(db, key)
           /\ now >= ExpiresAt(db, key)
           /\ Called("get", key)
           /\ \E ttl \in TTLArgs : get(key, NoLoader, ttl))
          => (ret' = RetNone /\ PairAbsent(db', key))]_vars

\* a get without loader has found its entry expired
C3_Witness ==
    /\ call.op = "get" /\ call.branch = "expired"
    /\ call.loaded = 0
    /\ ret = RetNone
    /\ PairAbsent(db, call.key)

\* the entries with expires_at <= t
ExpiredAt(d, t) == {key \in Keys : db_has(d, MetaKey(key)) /\ ExpiresAt(d, key) <= t}

\* C4 as stated: clear_expired removes exactly the entries with
\* expires_at <= now, returns their number, adds it to the eviction counter
\* and leaves every other entry unchanged
C4_ClearExpired_Original ==
    [][(Called("clear_expired", "") /\ clear_expired) =>
          LET E == ExpiredAt(db, now)
          IN  /\ \A key \in E : PairAbsent(db', key)
              /\ ret' = RetInt(Cardinality(E))
              /\ stats'.evictions = stats.evictions + Cardinality(E)
              /\ \A key \in Keys \ E :
                    Present(db, key) =>
                        /\ Present(db', key)
                        /\ db'[CacheKey(key)] = db[CacheKey(key)]
                        /\ db'[MetaKey(key)] = db[MetaKey(key)]]_vars

\* the keys of a dict and the value it maps a key to
DictKeys(data_dict) == {data_dict[i][1] : i \in 1..Len(data_dict)}
DictValue(data_dict, key) ==
    data_dict[CHOOSE i \in 1..Len(data_dict) : data_dict[i][1] = key][2]

\* every pair of the warm_cache call w is in the store d, as that call wrote it
AllWritten(w, d) ==
    \A key \in DictKeys(w.data_dict) :
        /\ Present(d, key)
        /\ d[CacheKey(key)] = json_dumps(DictValue(w.data_dict, key))
        /\ CreatedAt(d, key) = w.current_time
        /\ ExpiresAt(d, key) = w.current_time + w.ttl

\* what C5 says of every step of a warm_cache call: the store is left as it
\* was, or the step is the one that returns, all pairs are present, the
\* mapping size is returned and the write counter grew by it
WarmSteps ==
    warm.pc = "loop" =>
        \/ db' = db /\ stats' = stats
        \/ /\ warm'.pc = "idle"
           /\ AllWritten(warm, db')
           /\ ret' = RetInt(Len(warm.data_dict))
           /\ stats' = [stats EXCEPT !.writes = @ + Len(warm.data_dict)]

\* C5 as stated: warm_cache writes all pairs of the mapping or none, also when
\* it fails; when it returns all are present, it returns the mapping size, the
\* write counter grew by that size, and a get of a key of the mapping before
\* its expiry returns the mapped value
C5_WarmAtomic_Original ==
    [][/\ WarmSteps
       /\ \A key \in Keys :
             (/\ call.op = "warm_cache" /\ call.branch = "commit"
              /\ key \in DictKeys(call.data_dict)
              /\ GetCall(key)
              /\ now < ExpiresAt(db, key))
             => ret' = RetValue(DictValue(call.data_dict, key))]_vars

\* C5 as amended: the same, the get returning the mapped value as JSON reads
\* it back, which is the mapped value for every value JSON represents as itself
C5_WarmAtomic ==
    [][/\ WarmSteps
       /\ \A key \in Keys :
             (/\ call.op = "warm_cache" /\ call.branch = "commit"
              /\ key \in DictKeys(call.data_dict)
              /\ GetCall(key)
              /\ now < ExpiresAt(db, key))
             => LET value == DictValue(call.data_dict, key)
                IN  /\ ret' = RetValue(json_loads(json_dumps(value)))
                    /\ JsonNative(value) => ret' = RetValue(value)]_vars

\* a warm_cache of two keys has returned and both pairs are in the store
C5_Witness ==
    /\ call.op = "warm_cache" /\ call.branch = "commit"
    /\ Len(call.data_dict) = 2
    /\ ret = RetInt(2)
    /\ \A key \in DictKeys(call.data_dict) : Present(db, key)

\* C8: every get adds one to exactly one of hits and misses, to hits when it
\* returns the stored unexpired value and to misses otherwise; no other call
\* changes either; hits + misses is the number of get calls
C8_HitMissAccounting ==
    /\ [](gets = stats.hits + stats.misses)
    /\ [][/\ \A key \in Keys :
                GetCall(key) =>
                    IF Live(db, key, now)
                    THEN /\ stats'.hits = stats.hits + 1
                         /\ stats'.misses = stats.misses
                         /\ ret' = RetValue(json_loads(db[CacheKey(key)]))
                    ELSE /\ stats'.misses = stats.misses + 1
                         /\ stats'.hits = stats.hits
          /\ gets' = gets =>
                (stats'.hits = stats.hits /\ stats'.misses = stats.misses)]_vars

\* two gets have missed, the second one with a loader that failed
C8_Witness ==
    /\ call.op = "get"
    /\ ret = Raise
    /\ gets = 2
    /\ stats.misses = 2

\* C9 as stated: a get with loader that finds no live entry invokes the loader
\* once; it returns the loader's value and leaves a live entry holding it with
\* the given ttl (default_ttl when omitted); a get that finds a live entry does
\* not invoke the loader; a failing loader fails the get, leaves no record of
\* the key and the write counter as it was
C9_Loader_Original ==
    [][\A key \in Keys, loader_fn \in Loaders \ {NoLoader}, ttl \in TTLArgs :
          (Called("get", key) /\ get(key, loader_fn, ttl)) =>
              IF Live(db, key, now)
              THEN call'.loaded = 0
              ELSE /\ call'.loaded = 1
                   /\ loader_fn.kind = "returns" =>
                         /\ ret' = RetValue(loader_fn.v)
                         /\ Live(db', key, now')
                         /\ db'[CacheKey(key)] = json_dumps(loader_fn.v)
                         /\ StoredMeta(db', key).ttl = ClaimedTTL(ttl)
                         /\ stats'.writes = stats.writes + 1
                   /\ loader_fn.kind = "raises" =>
                         /\ ret' = Raise
                         /\ PairAbsent(db', key)
                         /\ stats'.writes = stats.writes]_vars

\* C11 as stated: default_ttl is used only when the ttl is omitted; for every
\* explicitly given ttl >= 0, ttl = 0 included, the metadata written has ttl
\* equal to the given value and expires_at = created_at + ttl, so an entry set
\* with ttl = 0 is expired for any later get (stated of set and of get with
\* loader, whose steps name the ttl they were given)
C11_TTLSelection_Original ==
    [][/\ \A key \in Keys, value \in Values, ttl \in TTLArgs :
             (/\ Called("set", key)
              /\ call'.ttl = ttl /\ call'.value = value
              /\ set(key, value, ttl))
             => /\ StoredMeta(db', key).ttl = ClaimedTTL(ttl)
                /\ ExpiresAt(db', key) = CreatedAt(db', key) + ClaimedTTL(ttl)
                /\ (ttl.given /\ ttl.v = 0) => ~Live(db', key, now')
       /\ \A key \in Keys :
             (/\ Called("get", key) /\ call'.loaded = 1 /\ ret' # Raise)
             => /\ StoredMeta(db', key).ttl = ClaimedTTL(call'.ttl)
                /\ ExpiresAt(db', key) = CreatedAt(db', key) + ClaimedTTL(call'.ttl)]_vars

\* C12: after delete(key) neither cache:key nor meta:key exists, whether or not
\* the entry existed; the call adds exactly 1 to the eviction counter, changes
\* no other counter and no record of another key; a get(key) without loader
\* that follows returns absent
C12_DeleteIdempotent ==
    [][\A key \in Keys :
          /\ (Called("delete", key) /\ delete(key)) =>
                /\ PairAbsent(db', key)
                /\ stats' = [stats EXCEPT !.evictions = @ + 1]
                /\ \A other \in Keys \ {key} :
                      \A k \in {CacheKey(other), MetaKey(other)} :
                         /\ db_has(db', k) <=> db_has(db, k)
                         /\ db_has(db, k) => db'[k] = db[k]
          /\ (/\ call.op = "delete" /\ call.key = key
              /\ Called("get", key)
              /\ \E ttl \in TTLArgs : get(key, NoLoader, ttl))
             => ret' = RetNone]_vars

\* a second delete of a key that never existed has been counted as well
C12_Witness ==
    /\ call.op = "delete"
    /\ stats.evictions = 2
    /\ stats.writes = 0
    /\ \A key \in Keys : PairAbsent(db, key)

\* C15: a get(key) that hits leaves cache:key and meta:key, and the whole
\* store, as they were; so an entry is served only before the expires_at it
\* was written with, however often it was hit: a get at or after it is no hit
C15_NoSliding ==
    [][\A key \in Keys :
          /\ (GetCall(key) /\ Live(db, key, now)) =>
                /\ call'.branch = "hit"
                /\ db' = db
          /\ (GetCall(key) /\ Present(db, key) /\ now >= ExpiresAt(db, key)) =>
                call'.branch # "hit"
          /\ (Present(db, key) /\ Present(db', key) /\ ~Called("set", key)
              /\ ~(call'.op = "warm_cache") /\ ~(call'.op = "get" /\ call'.loaded = 1)) =>
                db'[MetaKey(key)] = db[MetaKey(key)]]_vars

\* an entry has been hit after the clock moved and is as it was written
C15_Witness ==
    /\ call.op = "get" /\ call.branch = "hit"
    /\ now > 0
    /\ CreatedAt(db, call.key) = 0
    /\ ExpiresAt(db, call.key) = StoredMeta(db, call.key).ttl

\* C18: a get(key) without loader creates and modifies no record and leaves
\* the write and eviction counters: the keys of the store afterwards are among
\* those before, only cache:key and meta:key can be gone and only when the
\* entry was expired or unpaired, every record left has its content, and the
\* call returns absent whenever the entry was absent or expired
C18_GetNeverWrites ==
    [][\A key \in Keys :
          (/\ Called("get", key)
           /\ \E ttl \in TTLArgs : get(key, NoLoader, ttl))
          => /\ DOMAIN db' \subseteq DOMAIN db
             /\ (DOMAIN db) \ (DOMAIN db') \subseteq {CacheKey(key), MetaKey(key)}
             /\ db' # db =>
                   \/ Present(db, key) /\ now >= ExpiresAt(db, key)
                   \/ db_has(db, CacheKey(key)) /\ ~db_has(db, MetaKey(key))
             /\ \A k \in DOMAIN db' : db'[k] = db[k]
             /\ stats'.writes = stats.writes
             /\ stats'.evictions = stats.evictions
             /\ ~Live(db, key, now) => ret' = RetNone]_vars

\* a get without loader has removed an expired entry, counted as a miss and
\* not as an eviction
C18_Witness ==
    /\ call.op = "get" /\ call.branch = "expired" /\ call.loaded = 0
    /\ stats.evictions = 0
    /\ stats.misses = 1
    /\ PairAbsent(db, call.key)

\* the logical keys with a meta: record in the store, and the sum of their size_bytes
MetaKeys(d) == {key \in Keys : db_has(d, MetaKey(key))}
RECURSIVE SizeOf(_, _)
SizeOf(d, S) ==
    IF S = {} THEN 0
    ELSE LET key == CHOOSE k \in S : TRUE
         IN  StoredMeta(d, key).size_bytes + SizeOf(d, S \ {key})

\* the step is a step of a call of op, not a tick of the clock
StepOf(op) == call'.op = op /\ ~UNCHANGED <<db, stats, call, ret, warm, gets, issued>>

\* C19: get_stats changes no record and no counter; its current_entries is
\* the number of meta: records in the store, expired ones included, its
\* total_cached_size the sum of their size_bytes; its write total counts the
\* entries written by set, warm_cache and the loader, its eviction total the
\* delete calls and the entries removed by clear_expired
C19_GetStats ==
    [][/\ (Called("get_stats", "") /\ get_stats) =>
             /\ db' = db /\ stats' = stats
             /\ ret'.v.current_entries = Cardinality(MetaKeys(db))
             /\ ret'.v.total_cached_size = SizeOf(db, MetaKeys(db))
             /\ ret'.v.total_writes = stats.writes
             /\ ret'.v.total_evictions = stats.evictions
       /\ stats'.writes - stats.writes =
             CASE StepOf("set") -> 1
               [] StepOf("get") /\ call'.loaded = 1 /\ ret' # Raise -> 1
               [] StepOf("warm_cache") /\ call'.branch = "commit" -> Len(warm.data_dict)
               [] OTHER -> 0
       /\ stats'.evictions - stats.evictions =
             CASE StepOf("delete") -> 1
               [] StepOf("clear_expired") ->
                     Cardinality(MetaKeys(db)) - Cardinality(MetaKeys(db'))
               [] OTHER -> 0]_vars

\* get_stats has counted two entries, one of them past its expiry time
C19_Witness ==
    /\ call.op = "get_stats"
    /\ ret.v.current_entries = 2
    /\ ret.v.total_cached_size = 7
    /\ \E key \in Keys : Present(db, key) /\ now >= ExpiresAt(db, key)

----------------------------------------------------------------------------
(* Properties of CacheLayer with two callers, checked under SpecCacheConc *)

\* C14 as stated: every creation and deletion of a cache entry, the removal by
\* get included, is one atomic step over cache:K and meta:K; hence under any
\* interleaving of the callers, in every state where no call is in progress
\* cache:K exists if and only if meta:K exists
C14_AtomicPairs_Original ==
    (\A c \in Callers : AtRest(c)) =>
        \A key \in Keys : db_has(db, CacheKey(key)) <=> db_has(db, MetaKey(key))

\* C16 as stated: a get(key) that finds meta:key without cache:key counts a
\* miss, deletes meta:key so that neither record exists afterwards, and
\* applies the loader branch (returns absent without a loader)
C16_OrphanRepair_Original ==
    [][\A c \in Callers :
          (/\ procs[c].pc = "miss" /\ procs[c].orphan
           /\ procs[c].loader_fn = NoLoader
           /\ ~db_has(db, CacheKey(procs[c].key)) /\ db_has(db, MetaKey(procs[c].key))
           /\ AtRest(c)')
          => /\ PairAbsent(db', procs[c].key)
             /\ stats'.misses = stats.misses + 1
             /\ ret' = RetNone]_vars

----------------------------------------------------------------------------
(* Properties of SessionStore, checked under SpecSession *)

SessionPresent(d, session_id) == db_has(d, SessionKey(session_id))

\* the session record is in both stores, with the same content
SameSession(d1, d2, session_id) ==
    /\ SessionPresent(d1, session_id) <=> SessionPresent(d2, session_id)
    /\ SessionPresent(d1, session_id) =>
           d1[SessionKey(session_id)] = d2[SessionKey(session_id)]

\* C6: a get_session(S) at now - last_accessed <= ttl_seconds returns the
\* record and sets last_accessed to now; one at now - last_accessed >
\* ttl_seconds returns absent and removes session:S; a session that is gone
\* stays gone and get_session(S) returns absent from then on
C6_SlidingExpiration ==
    [][\A session_id \in SessionIds :
          /\ (/\ SessionPresent(db, session_id)
              /\ now - LastAccessed(db, session_id) <= ttl_seconds
              /\ Called("get_session", session_id)
              /\ get_session(session_id))
             => /\ ret'.kind = "session"
                /\ ret'.v = [StoredSession(db, session_id)
                                EXCEPT !.last_accessed = isoformat(now')]
                /\ SessionPresent(db', session_id)
                /\ StoredSession(db', session_id) = ret'.v
          /\ (/\ SessionPresent(db, session_id)
              /\ now - LastAccessed(db, session_id) > ttl_seconds
              /\ Called("get_session", session_id)
              /\ get_session(session_id))
             => (ret' = RetNone /\ ~SessionPresent(db', session_id))
          /\ (/\ ~SessionPresent(db, session_id)
              /\ Called("get_session", session_id)
              /\ get_session(session_id))
             => ret' = RetNone
          /\ (session_id \in issued /\ ~SessionPresent(db, session_id))
             => ~SessionPresent(db', session_id)]_vars

\* a get_session has returned a session that is older than ttl_seconds and was
\* kept alive by the calls before
C6_Witness ==
    /\ call.op = "get_session" /\ call.branch = "live"
    /\ ret.kind = "session"
    /\ fromisoformat(ret.v.last_accessed) - fromisoformat(ret.v.created_at) > ttl_seconds

\* C7: update_session(S, partial) on an absent or expired session returns
\* false, leaves no session:S record and changes no other session; on a live
\* session it returns true, the stored data maps every key of partial to its
\* new value and every other stored key to its previous value, and user_id,
\* session_id and created_at are unchanged
C7_UpdateSession ==
    [][\A session_id \in SessionIds, data \in ArgDicts :
          (/\ Called("update_session", session_id)
           /\ call'.data = data
           /\ update_session(session_id, data)) =>
              IF \/ ~SessionPresent(db, session_id)
                 \/ now - LastAccessed(db, session_id) > ttl_seconds
              THEN /\ ret' = RetBool(FALSE)
                   /\ ~SessionPresent(db', session_id)
                   /\ \A other \in SessionIds \ {session_id} : SameSession(db, db', other)
              ELSE /\ ret' = RetBool(TRUE)
                   /\ SessionPresent(db', session_id)
                   /\ LET old == StoredSession(db, session_id)
                          new == StoredSession(db', session_id)
                      IN  /\ DOMAIN new.data = (DOMAIN old.data) \cup (DOMAIN data)
                          /\ \A f \in DOMAIN data : new.data[f] = data[f]
                          /\ \A f \in (DOMAIN old.data) \ (DOMAIN data) :
                                new.data[f] = old.data[f]
                          /\ new.user_id = old.user_id
                          /\ new.session_id = old.session_id
                          /\ new.created_at = old.created_at]_vars

\* an update_session has merged a field into a session that had another one
C7_Witness ==
    /\ call.op = "update_session" /\ call.branch = "live"
    /\ ret = RetBool(TRUE)
    /\ Cardinality(DOMAIN StoredSession(db, call.key).data) = 2

\* the sessions with now - last_accessed > ttl_seconds at time t
ExpiredSessionsAt(d, t) ==
    {session_id \in SessionIds :
        SessionPresent(d, session_id) /\ t - LastAccessed(d, session_id) > ttl_seconds}

\* C10: cleanup_expired_sessions deletes exactly the sessions with
\* now - last_accessed > ttl_seconds, in one step, returns their number and
\* leaves every other session as it was
C10_CleanupExpired ==
    [][(Called("cleanup_expired_sessions", "") /\ cleanup_expired_sessions) =>
          LET E == ExpiredSessionsAt(db, now)
          IN  /\ \A session_id \in E : ~SessionPresent(db', session_id)
              /\ ret' = RetInt(Cardinality(E))
              /\ \A session_id \in SessionIds \ E : SameSession(db, db', session_id)]_vars

\* a sweep has deleted one session and left a live one
C10_Witness ==
    /\ call.op = "cleanup_expired_sessions"
    /\ ret = RetInt(1)
    /\ \E session_id \in SessionIds : SessionPresent(db, session_id)

SessionCreatedAt(d, session_id) == fromisoformat(StoredSession(d, session_id).created_at)

\* C17: under a non-decreasing clock the stored last_accessed of a session
\* never decreases, it satisfies created_at <= last_accessed <= now in every
\* state, and after every successful get_session or update_session it is the
\* time at which that call returned
C17_LastAccessedMonotone ==
    /\ [](\A session_id \in SessionIds :
             SessionPresent(db, session_id) =>
                /\ SessionCreatedAt(db, session_id) <= LastAccessed(db, session_id)
                /\ LastAccessed(db, session_id) <= now)
    /\ [][\A session_id \in SessionIds :
             /\ (SessionPresent(db, session_id) /\ SessionPresent(db', session_id)) =>
                   LastAccessed(db', session_id) >= LastAccessed(db, session_id)
             /\ (/\ call'.op \in {"get_session", "update_session"}
                 /\ Called(call'.op, session_id)
                 /\ call'.branch = "live")
                => /\ SessionPresent(db', session_id)
                   /\ LastAccessed(db', session_id) = now']_vars

\* a get_session at the end of the clock's range has refreshed a session
\* created at time 0
C17_Witness ==
    /\ call.op = "get_session" /\ call.branch = "live"
    /\ LastAccessed(db, call.key) = now
    /\ now = MaxTime
    /\ SessionCreatedAt(db, call.key) = 0

\* a caller holds a copy of session:session_id that it read and will write
Holds(c, session_id) == procs[c].pc \in {"touch", "merge"} /\ procs[c].key = session_id

\* C13 as stated: with two callers interleaved at the calls of the store, once
\* session:S has been deleted no later state contains a session:S record
C13_DeletedTerminal_Original ==
    [][\A session_id \in SessionIds :
          (session_id \in issued /\ ~SessionPresent(db, session_id))
          => ~SessionPresent(db', session_id)]_vars

\* C13 as amended: once session:S has been deleted and no caller is in a
\* get_session(S) or update_session(S) that read the record before, no later
\* state contains a session:S record and no caller comes to hold one
C13_DeletedTerminal ==
    [][\A session_id \in SessionIds :
          (/\ session_id \in issued
           /\ ~SessionPresent(db, session_id)
           /\ \A c \in Callers : ~Holds(c, session_id))
          => /\ ~SessionPresent(db', session_id)
             /\ \A c \in Callers : ~Holds(c, session_id)']_vars

\* delete_session(S) has returned, no caller holds a copy of S, and a caller
\* is in the middle of a call on the other session
C13_Witness ==
    /\ call.op = "delete_session"
    /\ call.key \in issued
    /\ ~SessionPresent(db, call.key)
    /\ \A c \in Callers : ~Holds(c, call.key)
    /\ \E c \in Callers : procs[c].pc = "touch" /\ procs[c].key # call.key

----------------------------------------------------------------------------
(* Properties of the bulk scans on a shared store, checked under SpecShared *)

KeysWithPrefix(d, prefix) == {k \in DOMAIN d : startswith(k, prefix)}

\* the keys on which two stores differ
Changed(d1, d2) ==
    {k \in (DOMAIN d1) \cup (DOMAIN d2) :
        ~(k \in DOMAIN d1 /\ k \in DOMAIN d2 /\ d1[k] = d2[k])}

PairKeys(S) == {CacheKey(key) : key \in S} \cup {MetaKey(key) : key \in S}

SessionIdsOf(d, user_id) ==
    {session_id \in SessionIds :
        SessionPresent(d, session_id) /\ StoredSession(d, session_id).user_id = user_id}

SeqToSet(q) == {q[i] : i \in 1..Len(q)}

\* C20: in a store that holds cache:, meta: and session: keys together with
\* keys sorting before and after them, clear_expired and get_stats see every
\* meta: record and nothing else (the entry count and the size are those of
\* the meta: records, every entry past its expiry is swept), clear_expired
\* changes only cache:K/meta:K of entries at or past their expiry, and
\* cleanup_expired_sessions, get_user_sessions and SessionStore.get_stats see
\* every session: record and change or count no key outside session:.
C20_PrefixIsolation ==
    [][/\ StepOf("clear_expired") =>
             LET swept == {key \in Keys : db_has(db, MetaKey(key)) /\ ~db_has(db', MetaKey(key))}
             IN  /\ {key \in MetaKeys(db) : now > ExpiresAt(db, key)} \subseteq swept
                 /\ swept \subseteq ExpiredAt(db, now)
                 /\ ret' = RetInt(Cardinality(swept))
                 /\ Changed(db, db') \subseteq PairKeys(swept)
                 /\ \A k \in Changed(db, db') : ~db_has(db', k)
       /\ StepOf("get_stats") =>
             /\ db' = db
             /\ ret'.v.current_entries = Cardinality(KeysWithPrefix(db, metadata_prefix))
             /\ ret'.v.total_cached_size = SizeOf(db, MetaKeys(db))
       /\ StepOf("cleanup_expired_sessions") =>
             /\ ret' = RetInt(Cardinality(ExpiredSessionsAt(db, now)))
             /\ Changed(db, db') = {SessionKey(session_id) :
                                        session_id \in ExpiredSessionsAt(db, now)}
             /\ \A k \in Changed(db, db') : ~db_has(db', k)
       /\ \A user_id \in Users :
             (StepOf("get_user_sessions") /\ call'.key = user_id) =>
                 /\ db' = db
                 /\ ret'.kind = "list"
                 /\ SeqToSet(ret'.v.list) = SessionIdsOf(db, user_id)
                 /\ Len(ret'.v.list) = Cardinality(SessionIdsOf(db, user_id))
       /\ StepOf("SessionStore.get_stats") =>
             /\ db' = db
             /\ ret'.v.total_sessions = Cardinality(KeysWithPrefix(db, session_prefix))]_vars

\* C20 witness: clear_expired has swept the one expired entry out of a store
\* that holds both foreign keys and a session record, and all three are still
\* there.
C20_Witness ==
    /\ call.op = "clear_expired"
    /\ ret = RetInt(1)
    /\ stats.evictions = 1
    /\ ForeignKeys \subseteq DOMAIN db
    /\ KeysWithPrefix(db, metadata_prefix) = {}
    /\ KeysWithPrefix(db, cache_prefix) = {}
    /\ KeysWithPrefix(db, session_prefix) # {}

====
